---------------------------- MODULE Spec2Model ----------------------------
(***************************************************************************)
(* Model of cmd/renovator/renovator.go: the batch driver of main (the      *)
(* retry loop over the candidate list), the per-candidate pipeline (URL    *)
(* split, PR fetch, repository fetch, the eligibility gates, check-run     *)
(* fetch, prompt, review, merge), allPRsMerged, and the prompt functions   *)
(* confirmMerge, promptForComment, confirmMergeWithComment and             *)
(* showInformation, reading standard input through fmt.Scanln; and, as a   *)
(* specification of its own, the dependency filter applied to the search   *)
(* results before the first round.                                         *)
(*                                                                         *)
(* Strings that the program takes apart or compares (input lines, URLs,    *)
(* comments) are sequences of one-character strings.                       *)
(***************************************************************************)
EXTENDS Integers, Sequences, FiniteSets, TLC

VARIABLES
    searchResult,         \* searchResult.Issues (line 56)
    dependency,           \* flag -d (line 25), <<>> when not given
    si,                   \* index of the for loop at line 66 (1-based)
    matchingPRs,          \* the candidate list (lines 64-80), fixed for the run
    retryUntilAllMerged,  \* flag -retry-until-all-merged (line 29)
    defaultComment,       \* flag -m (line 26)
    remoteMerged,         \* remote side: PR number -> merged
    pc,                   \* position of the single thread of control
    i,                    \* index of the for loop at line 85 (1-based)
    j,                    \* index of the for loop at line 192 (1-based)
    repoName,             \* line 91
    prDetails,            \* line 96: {} (not fetched) or {record}
    repo,                 \* line 111: {} or {record}
    checks,               \* line 133: {} or {sequence of conclusions}
    allChecksPassed,      \* line 139
    verdict,              \* which gate of lines 117-150 the candidate ended at
    prTitle,              \* parameter of confirmMerge / confirmMergeWithComment
    response,             \* the response most recently read by the prompt
    readErr,              \* err of the last fmt.Scanln of the prompt
    comment,              \* the local comment of confirmMerge (line 214)
    commentLine,          \* the line the user typed when asked for the comment
    decision,             \* the return value of confirmMerge: "", Approve, Skip
    helpShown,            \* times showInformation ran in this prompt
    reads,                \* fmt.Scanln calls made by this prompt
    stdinBuf,             \* unread rest of the current input line: <<>> or <<rest>>
    stdinEOF,             \* standard input has reached end of file
    msg,                  \* last message printed or logged for this candidate
    reviewCalls,          \* CreateReview calls issued this round, per PR number
    mergeCalls,           \* Merge calls issued this round, per PR number
    reviewBody,           \* Body of the last review request, <<>> if none
    mergeMethod,          \* MergeMethod of the last merge request
    amFetched,            \* outcomes of the fetches of this allPRsMerged call
    amResult,             \* return value of allPRsMerged: "", "true", "false"
    skipped,              \* history: PR numbers the user has declined so far
    reviewsAhead          \* history: per PR number, successful CreateReview calls
                          \* minus Merge calls issued, over the whole run

vars == <<searchResult, dependency, si, skipped, reviewsAhead, matchingPRs,
          retryUntilAllMerged, defaultComment, remoteMerged, pc, i, j,
          repoName, prDetails, repo, checks, allChecksPassed, verdict, prTitle, response, readErr,
          comment, commentLine, decision, helpShown, reads, stdinBuf, stdinEOF, msg,
          reviewCalls, mergeCalls, reviewBody, mergeMethod, amFetched, amResult>>

config == <<matchingPRs, retryUntilAllMerged, defaultComment>>
search == <<searchResult, dependency, si>>
history == <<skipped, reviewsAhead>>
fetched == <<repoName, prDetails, repo, checks, allChecksPassed, verdict>>
prompt == <<prTitle, response, readErr, comment, commentLine, decision, helpShown,
            reads>>
stdin == <<stdinBuf, stdinEOF>>
calls == <<reviewCalls, mergeCalls, reviewBody, mergeMethod>>
allMerged == <<j, amFetched, amResult>>

-----------------------------------------------------------------------------
(* Bounds of the model *)

MaxPRs == 2        \* candidates in the list
MaxChecks == 2     \* check runs returned for a ref
MaxHelp == 2       \* times the user asks for help within one prompt

-----------------------------------------------------------------------------
(* Strings *)

LGTM == <<"L", "G", "T", "M">>
Y1 == <<"y">>
Y2 == <<"Y">>
C1s == <<"c">>
C2s == <<"C">>
Q == <<"?">>

\* The values the flag -m may hold: its default and another one.
DefaultComments == {LGTM, <<"o", "k">>}

\* strings.Split(s, "/"): the pieces between the separators; one (empty)
\* piece for the empty string.
RECURSIVE SplitFrom(_, _, _)
SplitFrom(s, k, cur) ==
    IF k > Len(s) THEN <<cur>>
    ELSE IF s[k] = "/" THEN <<cur>> \o SplitFrom(s, k + 1, <<>>)
    ELSE SplitFrom(s, k + 1, Append(cur, s[k]))

Split(s) == SplitFrom(s, 1, <<>>)

\* HTML URLs a search result may carry (GetHTMLURL gives "" for a missing one):
\* https://g/a/w/pull/N, one with an empty repository segment, one with too
\* few segments, and the empty URL.
UrlOk == <<"h", ":", "/", "/", "g", "/", "a", "/", "w", "/", "p", "/", "1">>
UrlEmptyRepo == <<"h", ":", "/", "/", "g", "/", "a", "/", "/", "p", "/", "1">>
UrlShort == <<"h", ":", "/", "/", "g", "/", "a">>
UrlEmpty == <<>>
HtmlUrls == {UrlOk, UrlEmptyRepo, UrlShort, UrlEmpty}

\* The index expression [4] of lines 91 and 193 (0-based 4 is 1-based 5).
RepoIndex == 5


-----------------------------------------------------------------------------
(* fmt.Scanln(&s) on standard input *)

\* Lines the user may type, each ended by its newline: the single words the
\* prompt distinguishes, a word it does not, the empty line, and two lines of
\* two words ("y r" and "n ry").
Lines ==
    { <<"y", "\n">>, <<"Y", "\n">>, <<"c", "\n">>, <<"C", "\n">>, <<"?", "\n">>,
      <<"n", "\n">>, <<"\n">>,
      <<"y", " ", "r", "\n">>, <<"n", " ", "r", "y", "\n">> }

\* First position from k on that holds no blank (a line ends with its newline).
RECURSIVE SkipSpace(_, _)
SkipSpace(s, k) == IF s[k] = " " THEN SkipSpace(s, k + 1) ELSE k

\* First position from k on that holds a blank or the newline.
RECURSIVE TokenEnd(_, _)
TokenEnd(s, k) == IF s[k] \in {" ", "\n"} THEN k ELSE TokenEnd(s, k + 1)

\* One call of fmt.Scanln(&v) on the unread input s (<<>> is end of file):
\* the word stored in v, the error, and the input left unread. Scanln stores
\* one space-separated word and wants the newline next; when another word
\* follows it fails with "expected newline" after consuming that word's
\* first character, and the rest of the line stays unread.
Scanln(s) ==
    IF s = <<>> THEN [val |-> <<>>, err |-> "EOF", rest |-> <<>>]
    ELSE LET a == SkipSpace(s, 1) IN
         IF s[a] = "\n"
         THEN [val |-> <<>>, err |-> "unexpected newline",
               rest |-> SubSeq(s, a + 1, Len(s))]
         ELSE LET e == TokenEnd(s, a)
                  b == SkipSpace(s, e)
              IN [val |-> SubSeq(s, a, e - 1),
                  err |-> IF s[b] = "\n" THEN "" ELSE "expected newline",
                  rest |-> SubSeq(s, b + 1, Len(s))]

\* What the next Scanln call may find: the unread rest of the current line,
\* else end of file once reached, else a line the user types or end of file.
Sources ==
    IF stdinBuf # <<>> THEN {stdinBuf}
    ELSE IF stdinEOF THEN {<<>>}
    ELSE Lines \cup {<<>>}

\* The effect of one Scanln call reading src on standard input.
Consume(src) ==
    /\ stdinBuf' = Scanln(src).rest
    /\ stdinEOF' = (stdinEOF \/ src = <<>>)

-----------------------------------------------------------------------------
(* Remote data *)

PRNums == 1..MaxPRs

\* Conclusions of a check run: an open set of strings, here the two passing
\* ones, a failing one and the empty conclusion of a run still in progress.
Conclusions == {"success", "skipped", "failure", ""}

RECURSIVE SeqsUpTo(_, _)
SeqsUpTo(S, n) ==
    IF n = 0 THEN {<<>>}
    ELSE LET shorter == SeqsUpTo(S, n - 1)
         IN shorter \cup {Append(q, x) : q \in {r \in shorter : Len(r) = n - 1}, x \in S}

CheckRunLists == SeqsUpTo(Conclusions, MaxChecks)

\* Candidate lists: the k-th search result is PR number k with title Tk.
Title(n) == <<"T", n>>
CandidateLists ==
    UNION { [1..n -> HtmlUrls] : n \in 0..MaxPRs }

Candidate(urls, n) == [title |-> Title(n), url |-> urls[n], number |-> n]

-----------------------------------------------------------------------------
(* Initial state: after the search and the filter, before the first round *)

NoCalls == [n \in PRNums |-> 0]

\* What every run starts with, whatever the search returned.
InitRun ==
    /\ retryUntilAllMerged \in BOOLEAN
    /\ defaultComment \in DefaultComments
    /\ remoteMerged = [n \in PRNums |-> FALSE]
    /\ skipped = {}
    /\ reviewsAhead = [n \in PRNums |-> 0]
    /\ i = 1
    /\ j = 1
    /\ repoName = <<>>
    /\ prDetails = {}
    /\ repo = {}
    /\ checks = {}
    /\ allChecksPassed = FALSE
    /\ verdict = ""
    /\ prTitle = <<>>
    /\ response = <<>>
    /\ readErr = ""
    /\ comment = <<>>
    /\ commentLine = <<>>
    /\ decision = ""
    /\ helpShown = 0
    /\ reads = 0
    /\ stdinBuf = <<>>
    /\ stdinEOF = FALSE
    /\ msg = ""
    /\ reviewCalls = NoCalls
    /\ mergeCalls = NoCalls
    /\ reviewBody = <<>>
    /\ mergeMethod = ""
    /\ amFetched = <<>>
    /\ amResult = ""

\* The state at line 83, the candidate list being the search results (line 78).
Init ==
    /\ \E urls \in CandidateLists :
          matchingPRs = [n \in 1..Len(urls) |-> Candidate(urls, n)]
    /\ searchResult = matchingPRs
    /\ dependency = <<>>
    /\ si = Len(searchResult) + 1
    /\ pc = "forPRs"
    /\ InitRun

-----------------------------------------------------------------------------
(* The dependency filter of main, lines 63-80 *)

\* Search results as the filter sees them: Title and Repository.Name are
\* pointers, here {} for nil and {s} for a pointer to the string s (a nil
\* Repository reads as a nil name).
Dep == <<"d">>
DepX == <<"d", "x">>
XDep == <<"x", "d">>
Dependencies == {<<>>, Dep, DepX}
IssueTitles == {{}, {Dep}, {DepX}, {XDep}}
IssueRepoNames == {{}, {<<>>}, {<<"w">>}}
SearchResults ==
    UNION { [1..n -> [title : IssueTitles, repoName : IssueRepoNames]] : n \in 0..MaxPRs }

\* s occurs in t as a contiguous run of characters.
IsSubstring(s, t) ==
    \E o \in 0..(Len(t) - Len(s)) : SubSeq(t, o + 1, o + Len(s)) = s

\* A title test that accepts every title containing the dependency.
TitleContains(p, dep) == \E t \in p.title : IsSubstring(dep, t)

\* Line 67: the title is present and equal to the dependency.
TitleMatches(p, dep) == p.title = {dep}

\* Line 68: the repository and its name are present and the name is not empty.
HasRepositoryName(p) == \E r \in p.repoName : r # <<>>

\* The state at line 64: the search has returned, the filter has not run.
InitFilter ==
    /\ searchResult \in SearchResults
    /\ dependency \in Dependencies
    /\ si = 1
    /\ matchingPRs = <<>>
    /\ pc = "filter"
    /\ InitRun

\* Lines 66-75: one iteration of the filter loop.
FilterStep ==
    /\ pc = "filter"
    /\ dependency # <<>>
    /\ si <= Len(searchResult)
    /\ LET p == searchResult[si]
       IN IF TitleMatches(p, dependency)
          THEN IF HasRepositoryName(p)
               THEN /\ matchingPRs' = Append(matchingPRs, p)
                    /\ msg' = "Repository details"
               ELSE /\ msg' = "Repository name is missing for PR"
                    /\ UNCHANGED matchingPRs
          ELSE /\ msg' = ""
               /\ UNCHANGED matchingPRs
    /\ si' = si + 1
    /\ UNCHANGED <<searchResult, dependency, history, retryUntilAllMerged,
                   defaultComment, remoteMerged, pc, i, fetched, prompt, stdin,
                   calls, allMerged>>

\* Line 76: the loop is over.
FilterDone ==
    /\ pc = "filter"
    /\ dependency # <<>>
    /\ si > Len(searchResult)
    /\ pc' = "forPRs"
    /\ msg' = "Found renovate PRs for dependency"
    /\ UNCHANGED <<search, history, config, remoteMerged, i, fetched, prompt,
                   stdin, calls, allMerged>>

\* Lines 77-80: no dependency given, every search result is a candidate.
NoFilter ==
    /\ pc = "filter"
    /\ dependency = <<>>
    /\ matchingPRs' = searchResult
    /\ si' = Len(searchResult) + 1
    /\ pc' = "forPRs"
    /\ msg' = "Found renovate PRs"
    /\ UNCHANGED <<searchResult, dependency, history, retryUntilAllMerged,
                   defaultComment, remoteMerged, i, fetched, prompt, stdin,
                   calls, allMerged>>

NextFilter ==
    \/ FilterStep
    \/ FilterDone
    \/ NoFilter

SpecFilter == InitFilter /\ [][NextFilter]_vars

-----------------------------------------------------------------------------
(* The per-candidate pipeline of main, lines 85-179 *)

pr == matchingPRs[i]

ResetFetched ==
    /\ repoName' = <<>>
    /\ prDetails' = {}
    /\ repo' = {}
    /\ checks' = {}
    /\ allChecksPassed' = FALSE
    /\ verdict' = ""

ResetPrompt ==
    /\ prTitle' = <<>>
    /\ response' = <<>>
    /\ readErr' = ""
    /\ comment' = <<>>
    /\ commentLine' = <<>>
    /\ decision' = ""
    /\ helpShown' = 0
    /\ reads' = 0

\* Lines 85-95: the loop takes the next candidate and derives the repository
\* name from its URL. Indexing the split URL past its end is a run-time panic,
\* which ends the process.
TakeCandidate ==
    /\ pc = "forPRs"
    /\ i <= Len(matchingPRs)
    /\ LET parts == Split(pr.url) IN
         IF Len(parts) < RepoIndex
         THEN /\ pc' = "panic"
              /\ UNCHANGED <<repoName, msg>>
         ELSE /\ repoName' = parts[RepoIndex]
              /\ IF parts[RepoIndex] = <<>>
                 THEN /\ msg' = "Cannot get repository name"
                      /\ pc' = "continue"
                 ELSE /\ msg' = "Processing PR"
                      /\ pc' = "getPR"
    /\ UNCHANGED <<search, history, config, remoteMerged, i, prDetails, repo, checks,
                   allChecksPassed, verdict, prompt, stdin, calls, allMerged>>

\* A PR fetch answered from what the search knew: an open PR, never merged.
PRFetchOutcomesStale(n) ==
    {[kind |-> k, merged |-> FALSE, mergeable |-> FALSE] : k \in {"err", "nil"}}
    \cup {[kind |-> "ok", merged |-> FALSE, mergeable |-> m] : m \in BOOLEAN}

\* Outcomes of client.PullRequests.Get: an error, a nil result, or the detail
\* of the PR as the remote side holds it now.
PRFetchOutcomes(n) ==
    {[kind |-> k, merged |-> FALSE, mergeable |-> FALSE] : k \in {"err", "nil"}}
    \cup {[kind |-> "ok", merged |-> remoteMerged[n], mergeable |-> m] : m \in BOOLEAN}

\* Lines 96-108.
FetchPRDetails ==
    /\ pc = "getPR"
    /\ \E o \in PRFetchOutcomes(pr.number) :
         CASE o.kind = "err" ->
                /\ msg' = "Error fetching PR details"
                /\ pc' = "continue"
                /\ UNCHANGED prDetails
           [] o.kind = "nil" ->
                /\ msg' = "PR details are nil"
                /\ pc' = "continue"
                /\ UNCHANGED prDetails
           [] o.kind = "ok" ->
                /\ prDetails' = {[merged |-> o.merged, mergeable |-> o.mergeable]}
                /\ pc' = "getRepo"
                /\ UNCHANGED msg
    /\ UNCHANGED <<search, history, config, remoteMerged, i, repoName, repo, checks,
                   allChecksPassed, verdict, prompt, stdin, calls, allMerged>>

\* The gates with the merged test moved before the archived test.
GateVerdictMergedFirst(archived, merged, mergeable) ==
    IF merged THEN "AlreadyMerged"
    ELSE IF archived THEN "Archived"
    ELSE IF ~mergeable THEN "NotMergeable"
    ELSE ""

\* The gates with the mergeable test moved before the merged test.
GateVerdictMergeableFirst(archived, merged, mergeable) ==
    IF archived THEN "Archived"
    ELSE IF ~mergeable THEN "NotMergeable"
    ELSE IF merged THEN "AlreadyMerged"
    ELSE ""

\* Lines 117-130: the gates on the fetched repository and PR detail, in the
\* order of the code; "" when all three let the candidate through.
GateVerdict(archived, merged, mergeable) ==
    IF archived THEN "Archived"
    ELSE IF merged THEN "AlreadyMerged"
    ELSE IF ~mergeable THEN "NotMergeable"
    ELSE ""

GateMessage(v) ==
    CASE v = "Archived" -> "is in an archived repository, skipping"
      [] v = "AlreadyMerged" -> "is already merged"
      [] v = "NotMergeable" -> "cannot be merged"

\* Lines 111-130: fetch the repository, then the three gates.
FetchRepo ==
    /\ pc = "getRepo"
    /\ \/ /\ msg' = "Error fetching repository details"
          /\ pc' = "continue"
          /\ UNCHANGED <<repo, verdict>>
       \/ \E archived \in BOOLEAN :
            LET d == CHOOSE x \in prDetails : TRUE
                v == GateVerdict(archived, d.merged, d.mergeable)
            IN /\ repo' = {[archived |-> archived]}
               /\ verdict' = v
               /\ IF v = ""
                  THEN pc' = "listChecks" /\ UNCHANGED msg
                  ELSE pc' = "continue" /\ msg' = GateMessage(v)
    /\ UNCHANGED <<search, history, config, remoteMerged, i, repoName, prDetails, checks,
                   allChecksPassed, prompt, stdin, calls, allMerged>>

\* A check run without a conclusion counted as passed too.
PassingConclusionsWithEmpty == {"success", "skipped", ""}

\* Line 141: the conclusions that count as passed.
PassingConclusions == {"success", "skipped"}

\* A check loop that never finds a failure.
AllChecksPassedAlways(runs) == TRUE

\* Lines 139-145.
AllChecksPassed(runs) ==
    \A k \in 1..Len(runs) : runs[k] \in PassingConclusions

\* Lines 133-150: fetch the check runs and decide on them.
FetchChecks ==
    /\ pc = "listChecks"
    /\ \/ /\ msg' = "Error fetching check runs"
          /\ pc' = "continue"
          /\ UNCHANGED <<checks, allChecksPassed, verdict>>
       \/ \E runs \in CheckRunLists :
            /\ checks' = {runs}
            /\ allChecksPassed' = AllChecksPassed(runs)
            /\ IF AllChecksPassed(runs)
               THEN /\ verdict' = "Eligible"
                    /\ pc' = "callConfirmMerge"
                    /\ UNCHANGED msg
               ELSE /\ verdict' = "ChecksFailed"
                    /\ msg' = "has non-succeeded checks"
                    /\ pc' = "continue"
    /\ UNCHANGED <<search, history, config, remoteMerged, i, repoName, prDetails, repo, prompt,
                   stdin, calls, allMerged>>

\* Lines 153 and 202-204: confirmMerge is called with the candidate's title
\* and prints its question. The check runs are not read again from here on
\* and leave the state; allChecksPassed stays.
CallConfirmMerge ==
    /\ pc = "callConfirmMerge"
    /\ prTitle' = pr.title
    /\ checks' = {}
    /\ pc' = "confirmMerge"
    /\ UNCHANGED <<search, history, config, remoteMerged, i, repoName, prDetails, repo,
                   allChecksPassed, verdict, response, readErr, comment,
                   commentLine, decision, helpShown, reads, stdin, msg, calls,
                   allMerged>>

-----------------------------------------------------------------------------
(* The prompt: confirmMerge, promptForComment, confirmMergeWithComment *)

\* The switch without its "?" case.
ConfirmMergeSwitchNoHelp(resp) ==
    CASE resp \in {Y1, Y2} -> "approve"
      [] resp \in {C1s, C2s} -> "comment"
      [] OTHER -> "skip"

\* Lines 210-221: the switch on the response.
ConfirmMergeSwitch(resp) ==
    CASE resp \in {Y1, Y2} -> "approve"
      [] resp \in {C1s, C2s} -> "comment"
      [] resp = Q -> "help"
      [] OTHER -> "skip"

\* A failed read taken for consent.
OnReadErrorApprove == "Approve"

\* Lines 206-209 and 239-242: what a failed read makes the prompt return.
OnReadError == "Skip"

\* Lines 202-222. On "?" showInformation prints the legend and confirmMerge
\* calls itself with the same title.
ConfirmMerge ==
    /\ pc = "confirmMerge"
    /\ \E src \in Sources :
         LET r == Scanln(src)
             next == IF r.err # "" THEN "error" ELSE ConfirmMergeSwitch(r.val)
         IN /\ next = "help" => helpShown < MaxHelp
            /\ Consume(src)
            /\ reads' = reads + 1
            /\ readErr' = r.err
            /\ CASE next = "error" ->
                      /\ msg' = "Error reading input"
                      /\ response' = r.val
                      /\ decision' = OnReadError
                      /\ pc' = "decided"
                      /\ UNCHANGED helpShown
                 [] next = "approve" ->
                      /\ response' = r.val
                      /\ decision' = "Approve"
                      /\ pc' = "decided"
                      /\ UNCHANGED <<msg, helpShown>>
                 [] next = "comment" ->
                      /\ response' = r.val
                      /\ pc' = "promptForComment"
                      /\ UNCHANGED <<msg, decision, helpShown>>
                 [] next = "help" ->
                      /\ helpShown' = helpShown + 1
                      /\ response' = r.val
                      /\ pc' = "confirmMerge"
                      /\ UNCHANGED <<msg, decision>>
                 [] next = "skip" ->
                      /\ response' = r.val
                      /\ decision' = "Skip"
                      /\ pc' = "decided"
                      /\ UNCHANGED <<msg, helpShown>>
    /\ UNCHANGED <<search, history, config, remoteMerged, i, fetched, prTitle, comment,
                   commentLine, calls, allMerged>>

\* Lines 224-233: a failed read gives the literal "LGTM".
PromptForComment ==
    /\ pc = "promptForComment"
    /\ \E src \in Sources :
         LET r == Scanln(src) IN
            /\ Consume(src)
            /\ reads' = reads + 1
            /\ readErr' = r.err
            /\ commentLine' = src
            /\ IF r.err # ""
               THEN comment' = LGTM /\ msg' = "Error reading comment"
               ELSE comment' = r.val /\ UNCHANGED msg
    /\ pc' = "confirmMergeWithComment"
    /\ UNCHANGED <<search, history, config, remoteMerged, i, fetched, prTitle, response, decision,
                   helpShown, calls, allMerged>>

\* Line 243.
ConfirmsWithComment(resp) == resp = Y1 \/ resp = Y2

\* Lines 235-244.
ConfirmMergeWithComment ==
    /\ pc = "confirmMergeWithComment"
    /\ \E src \in Sources :
         LET r == Scanln(src) IN
            /\ Consume(src)
            /\ reads' = reads + 1
            /\ readErr' = r.err
            /\ response' = r.val
            /\ IF r.err # ""
               THEN decision' = OnReadError /\ msg' = "Error reading input"
               ELSE /\ decision' = IF ConfirmsWithComment(r.val) THEN "Approve" ELSE "Skip"
                    /\ UNCHANGED msg
    /\ pc' = "decided"
    /\ UNCHANGED <<search, history, config, remoteMerged, i, fetched, prTitle, comment,
                   commentLine, helpShown, calls, allMerged>>

-----------------------------------------------------------------------------
(* Approve and merge, lines 153-178 *)

\* The branch taken whatever confirmMerge returned.
ApprovedAlways(d) == d \in {"Approve", "Skip"}

\* Line 153: the branch on what confirmMerge returned.
Approved(d) == d = "Approve"

\* Lines 153 and 176-178: confirmMerge has returned, and of its frames only
\* the returned decision is left (the comment is kept on for comparison with
\* the review that follows).
Decide ==
    /\ pc = "decided"
    /\ IF Approved(decision)
       THEN pc' = "createReview" /\ UNCHANGED <<msg, skipped>>
       ELSE /\ pc' = "continue"
            /\ msg' = "Skipping PR"
            /\ skipped' = skipped \cup {pr.number}
    /\ response' = <<>>
    /\ readErr' = ""
    /\ helpShown' = 0
    /\ reads' = 0
    /\ UNCHANGED <<search, reviewsAhead, config, remoteMerged, i, fetched, prTitle, comment,
                   commentLine, decision, stdin, calls, allMerged>>

\* Line 156: the body of the review request.
ReviewBody == LGTM

\* A failed CreateReview tried again at once.
OnReviewErrorRetry == "createReview"

\* A failed CreateReview that ends the run.
OnReviewErrorFatal == "done"

\* A failed CreateReview after which the merge is tried all the same.
OnReviewErrorMerge == "merge"

\* Lines 160-163: where control goes when CreateReview fails.
OnReviewError == "continue"

\* Lines 154-163.
CreateReview ==
    /\ pc = "createReview"
    /\ reviewBody' = ReviewBody
    /\ reviewCalls' = [reviewCalls EXCEPT ![pr.number] = @ + 1]
    /\ \/ /\ msg' = "Error approving PR"
          /\ pc' = OnReviewError
          /\ UNCHANGED reviewsAhead
       \/ /\ pc' = "merge"
          /\ reviewsAhead' = [reviewsAhead EXCEPT ![pr.number] = @ + 1]
          /\ UNCHANGED msg
    /\ UNCHANGED <<search, skipped, config, remoteMerged, i, fetched, prompt, stdin,
                   mergeCalls, mergeMethod, allMerged>>

\* A merge request asking for a squash.
MergeMethodSquash == "squash"

\* Line 167.
MergeMethod == "rebase"

\* Lines 165-175: a merge that succeeds makes the PR merged on the remote side.
MergePR ==
    /\ pc = "merge"
    /\ mergeMethod' = MergeMethod
    /\ mergeCalls' = [mergeCalls EXCEPT ![pr.number] = @ + 1]
    /\ \/ /\ msg' = "Error merging PR"
          /\ UNCHANGED remoteMerged
       \/ /\ msg' = "Successfully merged PR"
          /\ remoteMerged' = [remoteMerged EXCEPT ![pr.number] = TRUE]
    /\ reviewsAhead' = [reviewsAhead EXCEPT ![pr.number] = @ - 1]
    /\ pc' = "continue"
    /\ UNCHANGED <<search, skipped, config, i, fetched, prompt, stdin, reviewCalls,
                   reviewBody, allMerged>>

\* The continue statements and the end of the loop body (line 179): on to the
\* next candidate, the locals of this iteration gone.
Continue ==
    /\ pc = "continue"
    /\ i' = i + 1
    /\ pc' = "forPRs"
    /\ ResetFetched
    /\ ResetPrompt
    /\ msg' = ""
    /\ reviewBody' = <<>>
    /\ mergeMethod' = ""
    /\ UNCHANGED <<search, history, config, remoteMerged, stdin, reviewCalls, mergeCalls, allMerged>>

-----------------------------------------------------------------------------
(* The retry loop, lines 83-188, and allPRsMerged, lines 191-200 *)

\* Line 182, left operand: with retry off the loop is left at once; with it
\* on allPRsMerged is called.
EndRound ==
    /\ pc = "forPRs"
    /\ i > Len(matchingPRs)
    /\ pc' = IF ~retryUntilAllMerged THEN "done" ELSE "allPRsMerged"
    /\ j' = 1
    /\ amFetched' = <<>>
    /\ amResult' = ""
    /\ UNCHANGED <<search, history, config, remoteMerged, i, fetched, prompt, stdin, msg, calls>>

\* The test of line 195 without its merged part.
NotMergedIgnoringFlag(o) == o.kind = "err" \/ o.kind = "nil"

\* A convergence test that no fetch outcome satisfies.
NotMergedAlways(o) == TRUE

\* Line 195: the fetch outcomes that make allPRsMerged return false.
NotMerged(o) == o.kind = "err" \/ o.kind = "nil" \/ ~o.merged

\* Lines 192-198: one iteration of the loop of allPRsMerged.
AllPRsMergedFetch ==
    /\ pc = "allPRsMerged"
    /\ j <= Len(matchingPRs)
    /\ IF Len(Split(matchingPRs[j].url)) < RepoIndex
       THEN /\ pc' = "panic"
            /\ UNCHANGED <<j, amFetched, amResult>>
       ELSE \E o \in PRFetchOutcomes(matchingPRs[j].number) :
               /\ amFetched' = Append(amFetched, [number |-> matchingPRs[j].number,
                                                  kind |-> o.kind,
                                                  merged |-> o.merged])
               /\ IF NotMerged(o)
                  THEN /\ amResult' = "false"
                       /\ pc' = "retryCheck"
                       /\ UNCHANGED j
                  ELSE /\ j' = j + 1
                       /\ UNCHANGED <<pc, amResult>>
    /\ UNCHANGED <<search, history, config, remoteMerged, i, fetched, prompt, stdin, msg, calls>>

\* Line 199.
AllPRsMergedReturn ==
    /\ pc = "allPRsMerged"
    /\ j > Len(matchingPRs)
    /\ amResult' = "true"
    /\ pc' = "retryCheck"
    /\ UNCHANGED <<search, history, config, remoteMerged, i, j, amFetched, fetched, prompt, stdin,
                   msg, calls>>

\* Lines 182-188: leave the loop, or sleep and start the next round.
RetryDecision ==
    /\ pc = "retryCheck"
    /\ IF amResult = "true"
       THEN /\ pc' = "done"
            /\ UNCHANGED <<i, msg, reviewCalls, mergeCalls, allMerged>>
       ELSE /\ pc' = "forPRs"
            /\ i' = 1
            /\ msg' = "Some PR-s are not merged, retrying in 5 seconds"
            /\ reviewCalls' = NoCalls
            /\ mergeCalls' = NoCalls
            /\ j' = 1
            /\ amFetched' = <<>>
            /\ amResult' = ""
    /\ UNCHANGED <<search, history, config, remoteMerged, fetched, prompt, stdin, reviewBody,
                   mergeMethod>>

\* The remote side: somebody else merges a candidate PR while the program runs.
ExternalMerge ==
    /\ pc \notin {"done", "panic"}
    /\ \E n \in 1..Len(matchingPRs) :
         /\ ~remoteMerged[n]
         /\ remoteMerged' = [remoteMerged EXCEPT ![n] = TRUE]
    /\ UNCHANGED <<search, history, config, pc, i, fetched, prompt, stdin, msg, calls, allMerged>>

Next ==
    \/ TakeCandidate
    \/ FetchPRDetails
    \/ FetchRepo
    \/ FetchChecks
    \/ CallConfirmMerge
    \/ ConfirmMerge
    \/ PromptForComment
    \/ ConfirmMergeWithComment
    \/ Decide
    \/ CreateReview
    \/ MergePR
    \/ Continue
    \/ EndRound
    \/ AllPRsMergedFetch
    \/ AllPRsMergedReturn
    \/ RetryDecision
    \/ ExternalMerge

Spec == Init /\ [][Next]_vars

\* The steps of the program itself, as opposed to those of the remote side.
ProgramStep ==
    \/ TakeCandidate
    \/ FetchPRDetails
    \/ FetchRepo
    \/ FetchChecks
    \/ CallConfirmMerge
    \/ ConfirmMerge
    \/ PromptForComment
    \/ ConfirmMergeWithComment
    \/ Decide
    \/ CreateReview
    \/ MergePR
    \/ Continue
    \/ EndRound
    \/ AllPRsMergedFetch
    \/ AllPRsMergedReturn
    \/ RetryDecision

\* The state at line 83 with the flag -m, which no statement after line 26
\* reads, left at its default.
InitLive == Init /\ defaultComment = LGTM

\* The single thread of main keeps running: every remote call returns, the
\* sleep of line 187 ends, and a read of standard input returns once the user
\* has typed a line or closed the input.
LiveSpec == InitLive /\ [][Next]_vars /\ WF_vars(ProgramStep)

-----------------------------------------------------------------------------
(* Properties *)

Passes(runs) == \A k \in 1..Len(runs) : runs[k] \in {"success", "skipped"}

\* C1: a review-creation call or a merge call is issued for a PR only when it
\* is the candidate being processed, the data fetched for it in this round
\* gave the verdict Eligible (repository not archived, PR not merged, PR
\* mergeable, every fetched check conclusion success or skipped) and the
\* prompt returned Approve; nothing fetched or decided is carried over to the
\* next candidate or round.
C1_CallsOnlyWhenEligibleAndApproved ==
    /\ [][\A n \in PRNums :
            (reviewCalls'[n] > reviewCalls[n] \/ mergeCalls'[n] > mergeCalls[n]) =>
               /\ i <= Len(matchingPRs)
               /\ n = matchingPRs[i].number
               /\ verdict = "Eligible"
               /\ decision = "Approve"
               /\ repo = {[archived |-> FALSE]}
               /\ prDetails = {[merged |-> FALSE, mergeable |-> TRUE]}
               /\ allChecksPassed]_vars
    /\ [][(allChecksPassed' /\ ~allChecksPassed) =>
            (checks' # {} /\ \A runs \in checks' : Passes(runs))]_vars
    /\ [](pc = "forPRs" =>
            /\ verdict = "" /\ decision = "" /\ ~allChecksPassed
            /\ prDetails = {} /\ repo = {} /\ checks = {})

C1_Witness ==
    /\ pc = "continue"
    /\ msg = "Successfully merged PR"
    /\ reviewCalls[matchingPRs[i].number] = 1
    /\ mergeCalls[matchingPRs[i].number] = 1

\* C2: once the gates have been evaluated on fetched data, the verdict is
\* Eligible if and only if archived = false, merged = false, mergeable = true
\* and every fetched check run's conclusion is success or skipped (the empty
\* list included); a candidate failing a flag has a non-Eligible verdict.
C2_EligibleIff ==
    /\ \A d \in prDetails : \A r \in repo :
         LET flagsOk == ~r.archived /\ ~d.merged /\ d.mergeable IN
            /\ ~flagsOk => verdict \in {"Archived", "AlreadyMerged", "NotMergeable"}
            /\ \A runs \in checks :
                 /\ verdict \in {"Eligible", "ChecksFailed"}
                 /\ (verdict = "Eligible") <=> (flagsOk /\ Passes(runs))
    /\ checks # {} => (prDetails # {} /\ repo # {})
    /\ verdict = "Eligible" =>
         /\ repo = {[archived |-> FALSE]}
         /\ prDetails = {[merged |-> FALSE, mergeable |-> TRUE]}
         /\ allChecksPassed

C2_Witness ==
    /\ verdict = "Eligible"
    /\ checks = {<<"success", "skipped">>}

\* C3: a candidate whose repository is archived gets the verdict Archived
\* whatever its merged and mergeable flags are: it is reported as being in an
\* archived repository and skipped, no check runs are fetched, no input is
\* read and no review or merge call is made for it in this round.
C3_ArchivedAlwaysSkipped ==
    \A r \in repo : r.archived =>
        /\ verdict = "Archived"
        /\ msg = "is in an archived repository, skipping"
        /\ pc = "continue"
        /\ checks = {}
        /\ reads = 0
        /\ decision = ""
        /\ reviewBody = <<>>
        /\ mergeMethod = ""
        /\ reviewCalls[matchingPRs[i].number] = 0
        /\ mergeCalls[matchingPRs[i].number] = 0

C3_Witness ==
    /\ repo = {[archived |-> TRUE]}
    /\ prDetails = {[merged |-> TRUE, mergeable |-> FALSE]}
    /\ verdict = "Archived"

\* C4 as stated: every candidate whose PR detail says merged gets the verdict
\* AlreadyMerged once the gates have been evaluated.
C4_MergedAlwaysAlreadyMerged ==
    \A d \in prDetails : (d.merged /\ repo # {}) => verdict = "AlreadyMerged"

\* C4 as amended: a candidate whose PR detail says merged and whose
\* repository is not archived gets the verdict AlreadyMerged even when it is
\* not mergeable, and its check runs are not fetched.
C4_MergedUnlessArchived ==
    \A d \in prDetails : \A r \in repo : (d.merged /\ ~r.archived) =>
        /\ verdict = "AlreadyMerged"
        /\ msg = "is already merged"
        /\ pc = "continue"
        /\ checks = {}
        /\ reads = 0

C4_Witness ==
    /\ prDetails = {[merged |-> TRUE, mergeable |-> FALSE]}
    /\ repo = {[archived |-> FALSE]}
    /\ verdict = "AlreadyMerged"

\* C5: within a round at most one review-creation call and at most one merge
\* call are issued for any PR.
C5_AtMostOneCallPerRound ==
    \A n \in PRNums : reviewCalls[n] <= 1 /\ mergeCalls[n] <= 1

C5_Witness ==
    /\ Len(matchingPRs) >= 2
    /\ reviewCalls[1] = 1 /\ mergeCalls[1] = 1
    /\ reviewCalls[2] = 1 /\ mergeCalls[2] = 1

\* C6: the review that is submitted carries the decision's comment: the
\* comment the user entered on the c/C path, otherwise the value of -m.
C6_ReviewCarriesDecisionComment ==
    reviewBody # <<>> =>
        reviewBody = IF comment # <<>> THEN comment ELSE defaultComment

C8_CommentPathReadsComment ==
    (pc = "decided" /\ Len(commentLine) > 1) =>
        /\ comment = SubSeq(commentLine, 1, Len(commentLine) - 1)
        /\ reads = helpShown + 3
        /\ (decision = "Approve") <=> (readErr = "" /\ response \in {<<"y">>, <<"Y">>})

\* C9: at the first question, a read failure or an input other than y, Y, c,
\* C, ? yields Skip at once, with no further input read; a read failure in
\* any prompt state is logged and the program goes on (it never ends there).
C9_SkipAndReadFailure ==
    /\ (pc = "decided" /\ comment = <<>>
          /\ (readErr # "" \/ response \notin {<<"y">>, <<"Y">>})) =>
         /\ decision = "Skip"
         /\ reads = helpShown + 1
    /\ (pc \in {"promptForComment", "confirmMerge"}) => readErr = ""
    /\ readErr # "" =>
         /\ pc \in {"decided", "confirmMergeWithComment"}
         /\ msg \in {"Error reading input", "Error reading comment"}
         /\ pc = "decided" => decision = "Skip"
    /\ (pc = "continue" /\ decision = "Skip") =>
         (msg = "Skipping PR" /\ reviewBody = <<>> /\ mergeMethod = "")

\* The input "y r": a y followed by another word is a read failure.
C9_Witness ==
    /\ pc = "decided"
    /\ reads = 1
    /\ readErr = "expected newline" /\ response = <<"y">>
    /\ decision = "Skip"

\* C10: allPRsMerged returns true if and only if it fetched the detail of
\* every candidate, in list order, and each fetch succeeded with a non-nil
\* detail that says merged; it returns false if and only if the last fetch
\* it made failed, gave nil or gave an unmerged PR.
C10_AllMergedIff ==
    pc = "retryCheck" =>
        /\ amResult \in {"true", "false"}
        /\ Len(amFetched) <= Len(matchingPRs)
        /\ \A k \in 1..Len(amFetched) : amFetched[k].number = matchingPRs[k].number
        /\ (amResult = "true") <=>
              /\ Len(amFetched) = Len(matchingPRs)
              /\ \A k \in 1..Len(amFetched) :
                    amFetched[k].kind = "ok" /\ amFetched[k].merged
        /\ (amResult = "false") <=>
              \E k \in 1..Len(amFetched) :
                    amFetched[k].kind \in {"err", "nil"} \/ ~amFetched[k].merged

\* Candidates A and B both merged: true.
C10_Witness ==
    /\ pc = "retryCheck"
    /\ Len(matchingPRs) = 2
    /\ amResult = "true"

\* The process has ended: main returned after the break of line 183, or a
\* run-time panic unwound it.
Ended == pc \in {"done", "panic"}

\* C11: the driver leaves its loop only after a complete pass over the
\* candidate list, and only when retry mode is off or the allPRsMerged call
\* made after that pass returned true; with retry mode off no allPRsMerged
\* fetch is ever made; a result of false starts another pass over the same
\* list.
C11_LeavesLoopOnlyAfterCompletePass ==
    /\ Ended =>
          /\ i = Len(matchingPRs) + 1
          /\ retryUntilAllMerged => amResult = "true"
    /\ ~retryUntilAllMerged =>
          /\ amFetched = <<>>
          /\ pc \notin {"allPRsMerged", "retryCheck"}
    /\ (pc = "retryCheck" /\ amResult = "false") => i = Len(matchingPRs) + 1

\* The error messages of the remote calls made for a candidate, lines 98-107,
\* 113, 135, 161 and 171.
RemoteErrors ==
    {"Error fetching PR details", "PR details are nil",
     "Error fetching repository details", "Error fetching check runs",
     "Error approving PR", "Error merging PR"}

\* C12: a remote-call error made while a candidate is processed ends that
\* candidate's iteration and nothing else: the process neither ends nor leaves
\* the round, no further remote call is made for the candidate (what was
\* fetched and called so far stays as it is until the loop moves on), the next
\* step of the program moves to the following candidate, the round is left
\* only when the index has passed the whole list, and a new round starts again
\* at the first candidate of the same list.
C12_RemoteErrorOnlyEndsTheIteration ==
    /\ [](msg \in RemoteErrors =>
            /\ pc = "continue"
            /\ i <= Len(matchingPRs)
            /\ msg \in {"Error fetching PR details", "PR details are nil"} =>
                  prDetails = {} /\ repo = {} /\ checks = {} /\ reads = 0
            /\ msg = "Error fetching repository details" =>
                  repo = {} /\ checks = {} /\ reads = 0
            /\ msg = "Error fetching check runs" => checks = {} /\ reads = 0
            /\ msg # "Error merging PR" =>
                  mergeCalls[pr.number] = 0 /\ mergeMethod = ""
            /\ msg \notin {"Error approving PR", "Error merging PR"} =>
                  reviewCalls[pr.number] = 0 /\ reviewBody = <<>>)
    /\ [][(msg \in RemoteErrors) =>
            (  (pc' = "continue" /\ UNCHANGED <<i, fetched, prompt, stdin, calls, msg>>)
            \/ (pc' = "forPRs" /\ i' = i + 1) )]_vars
    /\ [][(pc = "forPRs" /\ pc' \in {"allPRsMerged", "done"}) =>
            i = Len(matchingPRs) + 1]_vars
    /\ [][(pc = "retryCheck" /\ pc' = "forPRs") =>
            i' = 1 /\ matchingPRs' = matchingPRs]_vars

\* The review of the first candidate failed, so no merge was tried for it,
\* and the second candidate is being processed in the same round.
C12_Witness ==
    /\ Len(matchingPRs) = 2
    /\ i = 2
    /\ pc = "getRepo"
    /\ reviewCalls[1] = 1
    /\ mergeCalls[1] = 0

\* C13: whatever the candidate's URL is, deriving the repository name gives a
\* non-empty name or skips the candidate with a logged reason, and never ends
\* the process.
C13_RepoNameNeverEndsTheProcess ==
    /\ pc # "panic"
    /\ pc \in {"getPR", "getRepo", "listChecks"} => repoName # <<>>
    /\ msg = "Cannot get repository name" => pc = "continue"


\* C14 as stated: with a dependency filter the candidate list is exactly the
\* search results whose title equals the filter string, in search order.
C14_CandidatesAreTheTitleMatches ==
    (pc = "forPRs" /\ dependency # <<>>) =>
        matchingPRs = SelectSeq(searchResult, LAMBDA p : p.title = {dependency})

\* C14, amended: with a dependency filter the candidate list is exactly the
\* search results whose title equals the filter string and whose repository
\* name is present and not empty, in search order; a result whose title
\* differs from the filter, one that only contains it included, is never a
\* candidate.  Stated for every prefix of the results the loop has passed.
C14_CandidatesAreTheNamedTitleMatches ==
    dependency # <<>> =>
        /\ matchingPRs =
              SelectSeq(SubSeq(searchResult, 1, si - 1),
                        LAMBDA p : p.title = {dependency}
                                   /\ p.repoName \notin {{}, {<<>>}})
        /\ \A m \in 1..Len(matchingPRs) : matchingPRs[m].title = {dependency}
        /\ pc = "forPRs" => si = Len(searchResult) + 1

\* The filter d has run over a result titled dx and a result titled d in a
\* named repository: only the second is a candidate.
C14_Witness ==
    /\ pc = "forPRs"
    /\ dependency = Dep
    /\ Len(searchResult) = 2
    /\ searchResult[1].title = {DepX}
    /\ searchResult[2] = [title |-> {Dep}, repoName |-> {<<"w">>}]
    /\ matchingPRs = <<searchResult[2]>>


\* The only candidate has just been reported merged by this program.
HappyMerged ==
    /\ Len(matchingPRs) = 1
    /\ msg = "Successfully merged PR"

\* C15: for a single candidate found eligible and approved, with both remote
\* mutations succeeding: the success report is made after exactly one review
\* request and exactly one merge request with method rebase for that PR, the
\* merge request coming after the review request; a PR fetched as merged gets
\* no further request; and the run then ends, in retry mode once allPRsMerged
\* has seen the PR merged (it ends unless allPRsMerged keeps returning false,
\* which it then does only because its fetch failed).
C15_HappyPath ==
    /\ [](msg = "Successfully merged PR" =>
            /\ pc = "continue"
            /\ verdict = "Eligible"
            /\ decision = "Approve"
            /\ reviewCalls[pr.number] = 1
            /\ mergeCalls[pr.number] = 1
            /\ reviewBody # <<>>
            /\ mergeMethod = "rebase"
            /\ remoteMerged[pr.number])
    /\ [][\A n \in PRNums :
            mergeCalls'[n] > mergeCalls[n] =>
               /\ pc = "merge"
               /\ n = pr.number
               /\ reviewCalls[n] = 1
               /\ mergeCalls[n] = 0
               /\ reviewCalls'[n] = 1]_vars
    /\ [](\A d \in prDetails : d.merged =>
            /\ pc \in {"getRepo", "continue"}
            /\ reviewCalls[pr.number] = 0
            /\ mergeCalls[pr.number] = 0)
    /\ [][(Len(matchingPRs) = 1 /\ remoteMerged[1]
             /\ pc = "allPRsMerged" /\ amResult' = "false") =>
            amFetched'[1].kind \in {"err", "nil"}]_vars
    /\ []((pc = "done" /\ retryUntilAllMerged) => amResult = "true")
    /\ [](HappyMerged => (<>(pc = "done") \/ []<>(amResult = "false")))

\* The user answered y at once, review and merge succeeded, retry mode is on.
C15_Witness ==
    /\ HappyMerged
    /\ retryUntilAllMerged
    /\ commentLine = <<>>
    /\ reads = 0
    /\ decision = "Approve"


\* Positions of main between two candidates and between two rounds.
BetweenCandidates == pc \in {"forPRs", "allPRsMerged", "retryCheck", "done"}

\* Positions from the call of confirmMerge to the merge request.
PromptOrCall ==
    pc \in {"callConfirmMerge", "confirmMerge", "promptForComment",
            "confirmMergeWithComment", "decided", "createReview", "merge"}

\* C16: nothing about a PR is kept from one round to the next.  Between two
\* candidates and between two rounds no PR detail, repository, check result,
\* verdict, answer or decision is held; a PR detail is what the remote side
\* says at the moment of the fetch; and the program is at the prompt, the
\* review or the merge only with a verdict Eligible drawn from the detail,
\* repository and checks fetched in this iteration, while an iteration that
\* ended Archived, AlreadyMerged, NotMergeable or ChecksFailed has read no
\* input and made no request, whatever happened to the PR in earlier rounds.
C16_NothingCachedAcrossRounds ==
    /\ [](BetweenCandidates =>
            /\ repoName = <<>> /\ prDetails = {} /\ repo = {} /\ checks = {}
            /\ ~allChecksPassed /\ verdict = ""
            /\ prTitle = <<>> /\ decision = "" /\ reads = 0 /\ comment = <<>>)
    /\ [][(pc = "getPR" /\ prDetails' # {}) =>
            \A d \in prDetails' : d.merged = remoteMerged[pr.number]]_vars
    /\ [](PromptOrCall =>
            /\ verdict = "Eligible"
            /\ prDetails = {[merged |-> FALSE, mergeable |-> TRUE]}
            /\ repo = {[archived |-> FALSE]}
            /\ allChecksPassed)
    /\ [](verdict \in {"Archived", "AlreadyMerged", "NotMergeable", "ChecksFailed"} =>
            /\ pc = "continue"
            /\ reads = 0 /\ decision = ""
            /\ reviewCalls[pr.number] = 0 /\ mergeCalls[pr.number] = 0)

\* A candidate the user declined in an earlier round, hence Eligible then,
\* has failing checks now and is passed over without a prompt.
C16_Witness ==
    /\ pc = "continue"
    /\ pr.number \in skipped
    /\ verdict = "ChecksFailed"
    /\ reads = 0
    /\ decision = ""


\* C17: a merge request for a PR is issued only from the position reached
\* directly by a successful review request for that PR in the same iteration;
\* after a failed review request the iteration ends with no merge request,
\* after a failed merge request the PR is not reported merged; and over the
\* whole run the merge requests issued for a PR never outnumber the
\* successful review requests for it.
C17_MergeOnlyAfterSuccessfulReview ==
    /\ [](\A n \in PRNums : reviewsAhead[n] >= 0 /\ mergeCalls[n] <= reviewCalls[n])
    /\ [](pc = "merge" =>
            /\ reviewCalls[pr.number] = 1
            /\ mergeCalls[pr.number] = 0
            /\ reviewsAhead[pr.number] = 1
            /\ reviewBody # <<>>
            /\ msg \notin RemoteErrors)
    /\ [][(pc' = "merge" /\ pc # "merge") =>
            /\ pc = "createReview"
            /\ i' = i
            /\ reviewCalls'[pr.number] = reviewCalls[pr.number] + 1]_vars
    /\ [][(\E n \in PRNums : mergeCalls'[n] > mergeCalls[n]) =>
            /\ pc = "merge"
            /\ mergeCalls' = [mergeCalls EXCEPT ![pr.number] = @ + 1]]_vars
    /\ [](msg = "Error approving PR" =>
            /\ pc = "continue"
            /\ mergeCalls[pr.number] = 0
            /\ mergeMethod = "")
    /\ [](msg = "Error merging PR" => pc = "continue")
    /\ [][(msg = "Error merging PR") => msg' \in {"Error merging PR", ""}]_vars

\* A review request has just failed: one review call, no merge call.
C17_Witness ==
    /\ pc = "continue"
    /\ msg = "Error approving PR"
    /\ reviewCalls[pr.number] = 1
    /\ mergeCalls[pr.number] = 0
    /\ reviewsAhead[pr.number] = 0


\* Positions inside the prompt functions, from the first question of
\* confirmMerge to its return.
InPrompt ==
    pc \in {"confirmMerge", "promptForComment", "confirmMergeWithComment", "decided"}

\* C18: the prompt is shown for a candidate only when the PR detail, the
\* repository and the check runs were all fetched in this iteration and gave
\* the verdict Eligible; standard input is read only inside the prompt; and
\* an iteration that ended Archived, AlreadyMerged, NotMergeable or
\* ChecksFailed, or with a failed fetch, has shown no prompt and read nothing.
C18_PromptOnlyWhenEligible ==
    /\ [](pc = "callConfirmMerge" =>
            /\ checks # {}
            /\ \A runs \in checks : Passes(runs))
    /\ []((pc = "callConfirmMerge" \/ InPrompt \/ reads > 0 \/ decision # "") =>
            /\ verdict = "Eligible"
            /\ prDetails = {[merged |-> FALSE, mergeable |-> TRUE]}
            /\ repo = {[archived |-> FALSE]}
            /\ allChecksPassed)
    /\ [][(stdinBuf' # stdinBuf \/ stdinEOF' # stdinEOF) =>
            /\ pc \in {"confirmMerge", "promptForComment", "confirmMergeWithComment"}
            /\ verdict = "Eligible"
            /\ reads' = reads + 1]_vars
    /\ []((\/ verdict \in {"Archived", "AlreadyMerged", "NotMergeable", "ChecksFailed"}
           \/ msg \in {"Error fetching PR details", "PR details are nil",
                       "Error fetching repository details",
                       "Error fetching check runs"}) =>
            /\ pc = "continue"
            /\ prTitle = <<>>
            /\ reads = 0
            /\ decision = "")

\* Without retry mode, the first candidate was passed over with nothing read
\* (it was neither declined nor reviewed and the input is untouched) and the
\* second, found Eligible, is at the prompt.
C18_Witness ==
    /\ ~retryUntilAllMerged
    /\ Len(matchingPRs) = 2
    /\ i = 2
    /\ pc = "confirmMerge"
    /\ verdict = "Eligible"
    /\ reads = 0
    /\ skipped = {}
    /\ reviewCalls[1] = 0
    /\ stdinBuf = <<>>
    /\ ~stdinEOF


\* Every candidate is merged on the remote side.
AllCandidatesMerged ==
    \A n \in 1..Len(matchingPRs) : remoteMerged[matchingPRs[n].number]

\* The PR-detail or repository fetch just made has failed, in the pipeline or
\* in allPRsMerged.
FetchJustFailed ==
    \/ msg \in {"Error fetching PR details", "PR details are nil",
                "Error fetching repository details"}
    \/ /\ amFetched # <<>>
       /\ amFetched[Len(amFetched)].kind \in {"err", "nil"}

\* C19: if from some point on every candidate is merged on the remote side
\* and no PR-detail or repository fetch fails, the run ends.  A candidate that
\* is merged when its PR detail is fetched gets no prompt, no review request
\* and no merge request in that iteration; allPRsMerged counts a merged PR
\* whose fetch succeeds as done, returning false for it only on a failed
\* fetch; and in retry mode the break is reached only with every candidate
\* merged.
C19_ConvergesOnceAllMerged ==
    /\ <>[](AllCandidatesMerged /\ ~FetchJustFailed) => <>Ended
    /\ [][(pc = "getPR" /\ remoteMerged[pr.number] /\ pc' # "getPR") =>
            \/ (pc' = "continue" /\ prDetails' = {})
            \/ (pc' = "getRepo" /\ prDetails' # {} /\ \A d \in prDetails' : d.merged)]_vars
    /\ [](\A d \in prDetails : d.merged =>
            /\ ~PromptOrCall
            /\ ~InPrompt
            /\ verdict \in {"", "Archived", "AlreadyMerged"}
            /\ reads = 0
            /\ decision = ""
            /\ reviewCalls[pr.number] = 0
            /\ mergeCalls[pr.number] = 0)
    /\ [][(/\ pc = "allPRsMerged"
           /\ j <= Len(matchingPRs)
           /\ pc' = "retryCheck"
           /\ remoteMerged[matchingPRs[j].number]) =>
            amFetched'[Len(amFetched')].kind \in {"err", "nil"}]_vars
    /\ []((pc = "done" /\ retryUntilAllMerged) =>
            amResult = "true" /\ AllCandidatesMerged)

\* Retry mode, two candidates, both merged by somebody else: the run has
\* ended without a prompt, a review request or a merge request.
C19_Witness ==
    /\ pc = "done"
    /\ retryUntilAllMerged
    /\ Len(matchingPRs) = 2
    /\ amResult = "true"
    /\ skipped = {}
    /\ reviewCalls = NoCalls
    /\ mergeCalls = NoCalls
    /\ stdinBuf = <<>>
    /\ ~stdinEOF


\* C20: a Skip is not remembered.  A candidate found Eligible is brought to
\* the prompt whether or not the user declined it in an earlier round (an
\* iteration with verdict Eligible is at the prompt or past it, and has a
\* decision when it ends), and in retry mode the process does not end while
\* a declined candidate is still unmerged.
C20_DeclinedCandidateKeepsTheDriverRunning ==
    /\ verdict = "Eligible" =>
          /\ pc = "callConfirmMerge" \/ InPrompt
                \/ pc \in {"createReview", "merge", "continue"}
          /\ pc = "continue" => decision \in {"Approve", "Skip"}
    /\ (retryUntilAllMerged /\ Ended) =>
          \A n \in skipped : remoteMerged[n]

=============================================================================
